---- MODULE Spec2Model ----
(***************************************************************************)
(* A model of the AI Sorter plugin (src/main.js): the settings object, the *)
(* vault (folders and markdown files), the confirmation modal, and the     *)
(* runs of performSort with their classifyAndMoveNote tasks.               *)
(*                                                                         *)
(* JavaScript is single threaded: every action below is one macrotask,     *)
(* i.e. a UI callback or the completion of one awaited external call,      *)
(* together with all the synchronous code and promise continuations that   *)
(* run before control returns to the event loop.                           *)
(*                                                                         *)
(* Strings the code computes on (labels, answers, contents, keys, names)   *)
(* are sequences of one-character strings, so that trim() and includes()   *)
(* are computed and not assumed.                                           *)
(*                                                                         *)
(* The vault is the host's: its calls are modelled at their call sites.    *)
(* Any of them may reject; createFolder can resolve only for a path that   *)
(* does not exist and rename only onto a path no file has.                 *)
(***************************************************************************)
EXTENDS Integers, Sequences, FiniteSets, TLC

\* ---------------------------------------------------------------- bounds
\* number of markdown files of the vault
MaxDocs == 3
\* number of performSort invocations
MaxRuns == 2
\* largest value of the "Max concurrent requests" slider that is explored
MaxWorkers == 2
\* number of settings-tab edits
MaxEdits == 1

\* ------------------------------------------------------------ vocabulary
\* JavaScript null (never a character string: characters have length one)
Null == <<"null">>
\* the empty string ''
Empty == <<>>
Space == " "
LabelW == <<"W">>
LabelP == <<"P">>
Labels == {LabelW, LabelP}
\* a non-empty credential
SomeKey == <<"k">>
Providers == {"gemini", "claude", "gpt"}
FileIds == 1..MaxDocs
RunIds == 1..MaxRuns
\* the characters base names are told apart by
NameChars == <<"1", "2", "3", "4", "5", "6">>
\* contents vault.read can return
Contents == {Empty, <<Space>>, <<"x">>}
\* texts a provider can answer (null: no textual completion field)
RawAnswers == {Null, <<Space>>, <<Space, "W", Space>>, <<"w">>}

Range(s) == {s[i] : i \in DOMAIN s}

VARIABLES
  settings,   \* this.settings
  folders,    \* names of the top-level folders of the vault
  files,      \* files[f]: [folder, name] of markdown file f
  modalOpen,  \* a SortConfirmationModal is open
  apiKeyNotice, \* the "Please set your ... API key" notice has been shown
  runs,       \* runs[r]: the locals of the r-th performSort invocation
  tasks,      \* tasks[r][f]: the locals of classifyAndMoveNote(f) in run r
  edits       \* number of settings-tab edits so far

vars == <<settings, folders, files, modalOpen, apiKeyNotice, runs, tasks, edits>>

\* file.name of a file: files keep their base name when they are moved
Name(f) == files[f].name

\* ------------------------------------------------------- pure functions
\* String.prototype.trim, on character sequences
RECURSIVE TrimStart(_)
TrimStart(s) ==
  IF s = <<>> THEN <<>>
  ELSE IF Head(s) = Space THEN TrimStart(Tail(s)) ELSE s

RECURSIVE TrimEnd(_)
TrimEnd(s) ==
  IF s = <<>> THEN <<>>
  ELSE IF s[Len(s)] = Space THEN TrimEnd(SubSeq(s, 1, Len(s) - 1)) ELSE s

Trim(s) == TrimEnd(TrimStart(s))

\* the check of line 138 without the trim
IsBlankNoTrim(content) == content = Empty

\* line 138: !content.trim()
IsBlank(content) == Trim(content) = Empty

\* line 188: response?.trim() || null
ClassifyResult(response) ==
  IF response = Null THEN Null
  ELSE IF Trim(response) = Empty THEN Null ELSE Trim(response)

\* toUpperCase, on the characters of the model
UpperCase(s) == [i \in DOMAIN s |-> IF s[i] = "w" THEN "W" ELSE IF s[i] = "p" THEN "P" ELSE s[i]]

\* the check of line 144 made case-insensitive
IsValidLabelIgnoreCase(chosenFolder, targetFolders) ==
  chosenFolder # Null /\ UpperCase(chosenFolder) \in {UpperCase(l) : l \in targetFolders}

\* line 144: chosenFolder && this.settings.targetFolders.includes(chosenFolder)
IsValidLabel(chosenFolder, targetFolders) ==
  chosenFolder # Null /\ chosenFolder \in targetFolders

\* getCurrentApiKey with the switch on the model forgotten
GetCurrentApiKeyGeminiOnly(s) == s.geminiApiKey

\* lines 64-75: getCurrentApiKey
GetCurrentApiKey(s) ==
  CASE s.aiModel = "gemini" -> s.geminiApiKey
    [] s.aiModel = "claude" -> s.claudeApiKey
    [] s.aiModel = "gpt" -> s.gptApiKey
    [] OTHER -> Empty

\* lines 176-186 with 197, 229, 260: the credential the provider call of the
\* selected model carries
CallCredential(s) ==
  IF s.aiModel = "gemini" THEN s.geminiApiKey
  ELSE IF s.aiModel = "claude" THEN s.claudeApiKey
  ELSE IF s.aiModel = "gpt" THEN s.gptApiKey
  ELSE Empty

\* lines 77-81: the names of the top-level folders
AutoDetectTargetFolders == folders

\* lines 85-93: the markdown files of the source folder, in vault order
RECURSIVE FilterFiles(_, _)
FilterFiles(f, sourceFolder) ==
  IF f > MaxDocs THEN <<>>
  ELSE LET keep == IF sourceFolder = Empty
                   THEN files[f].folder = Empty
                   ELSE \/ files[f].folder = sourceFolder
                        \/ (files[f].folder = Empty /\ Name(f) = sourceFolder)
       IN (IF keep THEN <<f>> ELSE <<>>) \o FilterFiles(f + 1, sourceFolder)

\* the loop of lines 103-107 with slice(i, i + batchSize - 1)
RECURSIVE MakeBatchesShortSlice(_, _, _)
MakeBatchesShortSlice(fs, i, batchSize) ==
  IF i >= Len(fs) THEN <<>>
  ELSE LET hi == IF i + batchSize - 1 < Len(fs) THEN i + batchSize - 1 ELSE Len(fs)
       IN <<SubSeq(fs, i + 1, hi)>> \o MakeBatchesShortSlice(fs, i + batchSize, batchSize)

\* lines 103-107: for (i = 0; i < files.length; i += batchSize) slice(i, i + batchSize)
RECURSIVE MakeBatches(_, _, _)
MakeBatches(fs, i, batchSize) ==
  IF i >= Len(fs) THEN <<>>
  ELSE LET hi == IF i + batchSize < Len(fs) THEN i + batchSize ELSE Len(fs)
       IN <<SubSeq(fs, i + 1, hi)>> \o MakeBatches(fs, i + batchSize, batchSize)

\* ------------------------------------------------------------ run state
\* A performSort invocation that has not started.  pc is "awaiting" (line 114),
\* "delay" (line 127) or "done"; files, batchSize, batches, totalMoved and
\* totalErrors are its locals, cur the number of the batch the for loop of line
\* 112 is at; notice is its last Notice ("nofiles" line 96, "starting" line
\* 100, "complete" line 131); delays counts the timers of line 127 it has
\* set; labels is settings.targetFolders as it was when performSort was
\* called, kept while the run has batches to go.
IdleRun ==
  [pc |-> "idle", files |-> <<>>, batchSize |-> 0, batches |-> <<>>, cur |-> 0,
   totalMoved |-> 0, totalErrors |-> 0, delays |-> 0, notice |-> "none",
   labels |-> {}]

\* A classifyAndMoveNote call that has not been made.  pc is the await the call
\* is suspended at ("read" line 136, "classify" line 142, "createFolder" line
\* 150, "rename" line 155) or "done"; ret is the line of the return statement
\* it left by (139, 156, 158, 162; 0 before) and value what it returned;
\* content, response, chosenFolder are its locals, prompt the label list put
\* into its prompt (line 168), checked the label list the answer was checked
\* against (line 144); reads, calls, moves count the
\* vault.read, provider and vault.rename calls it has issued.
NoTask ==
  [pc |-> "none", ret |-> 0, value |-> FALSE, content |-> Null, response |-> Null,
   chosenFolder |-> Null, prompt |-> {}, checked |-> {},
   reads |-> 0, calls |-> 0, moves |-> 0]

\* line 113: batch.map(file => this.classifyAndMoveNote(file)); each call runs
\* up to its first await (line 136), i.e. issues vault.read
\* Of the calls of the batches before, only the results are kept from then on.
Launch(ts, batch) ==
  [f \in FileIds |->
     IF f \in Range(batch) THEN [NoTask EXCEPT !.pc = "read", !.reads = 1]
     ELSE IF ts[f].pc = "done" THEN [NoTask EXCEPT !.pc = "done", !.value = ts[f].value]
     ELSE ts[f]]

\* classifyAndMoveNote(f) returns val at line ret: its promise is fulfilled, and
\* its locals other than the content read go out of scope
Returned(t, ret, val) ==
  [t EXCEPT !.pc = "done", !.ret = ret, !.value = val, !.response = Null,
            !.chosenFolder = Null, !.prompt = {}, !.checked = {}]

Settled(ts, f, ret, val) == [ts EXCEPT ![f] = Returned(@, ret, val)]

\* an error of one task that also ends the pending tasks of the run
CaughtCancelsSiblings(ts, f) ==
  [g \in FileIds |->
     IF g = f \/ ts[g].pc \in {"read", "classify", "createFolder", "rename"}
     THEN Returned(ts[g], 162, FALSE) ELSE ts[g]]

\* lines 160-163 with a catch block that starts the task again at line 136
CaughtRetries(ts, f) == [ts EXCEPT ![f] = [NoTask EXCEPT !.pc = "read", !.reads = ts[f].reads + 1]]

\* lines 160-163 with return true in the catch block
CaughtAsMoved(ts, f) == Settled(ts, f, 162, TRUE)

\* lines 160-163: catch (error) { console.error(...); return false; }
Caught(ts, f) == Settled(ts, f, 162, FALSE)

\* line 114 with Promise.any / Promise.race: one settled task is enough
AnySettled(run, ts) ==
  \E f \in Range(run.batches[run.cur]) : ts[f].pc = "done"

\* AllSettled that waits until every task of the batch has returned true
AllFulfilled(run, ts) ==
  \A f \in Range(run.batches[run.cur]) : ts[f].pc = "done" /\ ts[f].value

\* line 114: Promise.allSettled(promises) of the current batch is resolved
AllSettled(run, ts) ==
  \A f \in Range(run.batches[run.cur]) : ts[f].pc = "done"

\* line 126 with batches.indexOf(batch) < batches.length
NeedsDelayAfterEvery(run) == run.cur - 1 < Len(run.batches)

\* line 126: batches.indexOf(batch) < batches.length - 1
NeedsDelay(run) == run.cur < Len(run.batches)

\* lines 114-123 with Promise.all in place of Promise.allSettled and the
\* rejection counted once: a batch with a task that did not return true adds
\* one error and no move
FoldAllOrNothing(run, ts) ==
  LET batch == Range(run.batches[run.cur])
  IN IF \A f \in batch : ts[f].value
     THEN [run EXCEPT !.totalMoved = @ + Cardinality(batch)]
     ELSE [run EXCEPT !.totalErrors = @ + 1]

\* lines 116-123 with the test of line 117 reading result.status === 'fulfilled'
FoldCountsFulfilled(run, ts) ==
  [run EXCEPT !.totalMoved = @ + Cardinality(Range(run.batches[run.cur]))]

\* lines 116-123 with a third branch that counts a task that returned false
\* without an error (lines 139, 158) in neither total
FoldDropsSkips(run, ts) ==
  LET batch == Range(run.batches[run.cur])
  IN [run EXCEPT !.totalMoved = @ + Cardinality({f \in batch : ts[f].value}),
                 !.totalErrors = @ + Cardinality({f \in batch : ts[f].ret = 162})]

\* lines 116-123: results.forEach(...) over the current batch
Fold(run, ts) ==
  LET batch == Range(run.batches[run.cur])
      moved == Cardinality({f \in batch : ts[f].value})
  IN [run EXCEPT !.totalMoved = @ + moved,
                 !.totalErrors = @ + (Cardinality(batch) - moved)]

\* lines 112-114 and 131: the for loop takes the next batch and launches its
\* tasks, or is over and the summary is shown; the result is <<run, tasks>>
NextBatch(run, ts) ==
  IF run.cur < Len(run.batches)
  THEN <<[run EXCEPT !.pc = "awaiting", !.cur = @ + 1],
         Launch(ts, run.batches[run.cur + 1])>>
  ELSE <<[run EXCEPT !.pc = "done", !.notice = "complete", !.labels = {}], ts>>

\* lines 114-129: what performSort does once a task of the current batch has
\* settled: nothing while allSettled is pending; else fold the results and
\* start the pacing delay, or go on without one
Continue(run, ts) ==
  IF ~AllSettled(run, ts) THEN <<run, ts>>
  ELSE IF NeedsDelay(run)
       THEN <<[Fold(run, ts) EXCEPT !.pc = "delay", !.delays = @ + 1], ts>>
       ELSE NextBatch(Fold(run, ts), ts)

\* the run and task updates of run r after its tasks became ts
Step(r, ts) ==
  LET next == Continue(runs[r], ts)
  IN /\ runs' = [runs EXCEPT ![r] = next[1]]
     /\ tasks' = [tasks EXCEPT ![r] = next[2]]

\* ----------------------------------------------------------------- Init
\* this.settings after loadSettings (line 41): DEFAULT_SETTINGS overlaid with
\* the saved data
InitSettings ==
  {[aiModel |-> "gemini", geminiApiKey |-> k, claudeApiKey |-> Empty,
    gptApiKey |-> Empty, sourceFolder |-> Empty, useAutoDetection |-> a,
    targetFolders |-> Labels, maxWorkers |-> w] :
     k \in {Empty, SomeKey}, a \in BOOLEAN, w \in 1..MaxWorkers}

\* a vault whose markdown files all lie in the root
AllInRoot == [f \in FileIds |-> [folder |-> Empty, name |-> <<"n", NameChars[f]>>]]

\* a vault whose last file lies in folder W and has the base name of the first
WithResident ==
  [AllInRoot EXCEPT ![MaxDocs] = [folder |-> LabelW, name |-> <<"n", NameChars[1]>>]]

Init ==
  /\ settings \in InitSettings
  /\ folders \in {{}, {LabelW}}
  /\ files \in (IF LabelW \in folders THEN {AllInRoot, WithResident} ELSE {AllInRoot})
  /\ modalOpen = FALSE
  /\ apiKeyNotice = FALSE
  /\ runs = [r \in RunIds |-> IdleRun]
  /\ tasks = [r \in RunIds |-> [f \in FileIds |-> NoTask]]
  /\ edits = 0

\* ------------------------------------------------------------ UI actions
\* lines 48-62: sortNotes, from the ribbon icon or the command
SortNotes ==
  /\ ~modalOpen
  /\ IF GetCurrentApiKey(settings) = Empty
     THEN /\ apiKeyNotice' = TRUE
          /\ UNCHANGED <<settings, modalOpen>>
     ELSE /\ settings' = IF settings.useAutoDetection
                         THEN [settings EXCEPT !.targetFolders = AutoDetectTargetFolders]
                         ELSE settings
          /\ modalOpen' = TRUE
          /\ UNCHANGED apiKeyNotice
  /\ UNCHANGED <<folders, files, runs, tasks, edits>>

\* lines 320-324: the Cancel button
ModalCancel ==
  /\ modalOpen
  /\ modalOpen' = FALSE
  /\ UNCHANGED <<settings, folders, files, apiKeyNotice, runs, tasks, edits>>

\* line 95 with the early return lost
NoFilesNever(fs) == Len(fs) < 0

\* line 95: files.length === 0
NoFiles(fs) == Len(fs) = 0

\* lines 83-114: performSort up to its first await
PerformSort(r) ==
  LET fs == FilterFiles(1, settings.sourceFolder)
      batchSize == settings.maxWorkers
      batches == MakeBatches(fs, 0, batchSize)
  IN IF NoFiles(fs)
     THEN /\ runs' = [runs EXCEPT ![r] = [IdleRun EXCEPT !.pc = "done", !.notice = "nofiles"]]
          /\ UNCHANGED tasks
     ELSE LET run == [IdleRun EXCEPT !.files = fs, !.batchSize = batchSize,
                                     !.batches = batches, !.notice = "starting",
                                     !.labels = settings.targetFolders]
              next == NextBatch(run, tasks[r])
          IN /\ runs' = [runs EXCEPT ![r] = next[1]]
             /\ tasks' = [tasks EXCEPT ![r] = next[2]]

\* lines 326-332: the Sort Notes button: close the modal, then performSort
ModalConfirm ==
  /\ modalOpen
  /\ \E r \in RunIds :
       /\ runs[r].pc = "idle"
       /\ \A q \in RunIds : q < r => runs[q].pc # "idle"
       /\ PerformSort(r)
  /\ modalOpen' = FALSE
  /\ UNCHANGED <<settings, folders, files, apiKeyNotice, edits>>

\* ------------------------------------------- classifyAndMoveNote, by await
\* lines 147-151 without the test of line 149: createFolder is always called
PathExistsNever(path) == FALSE

\* line 147: this.app.vault.getAbstractFileByPath(targetFolderPath)
PathExists(path) ==
  \/ path \in folders
  \/ \E g \in FileIds : files[g].folder = Empty /\ Name(g) = path

\* lines 144-155, after classifyNote has returned chosenFolder: validate the
\* label, then issue createFolder (line 150) or rename (line 155)
AfterClassify(t, chosenFolder) ==
  LET u == [t EXCEPT !.chosenFolder = chosenFolder, !.checked = settings.targetFolders]
  IN IF IsValidLabel(chosenFolder, settings.targetFolders)
     THEN IF PathExists(chosenFolder)
          THEN [u EXCEPT !.pc = "rename", !.moves = @ + 1]
          ELSE [u EXCEPT !.pc = "createFolder"]
     ELSE Returned(u, 158, FALSE)

\* line 136 resolves with the content; lines 138-142 and 166-186: return false
\* on blank content, else build the prompt and call the provider
ReadOk(r, f) ==
  /\ tasks[r][f].pc = "read"
  /\ \E content \in Contents :
       LET ts == [tasks[r] EXCEPT ![f].content = content]
       IN IF IsBlank(content)
          THEN Step(r, Settled(ts, f, 139, FALSE))
          ELSE Step(r, [ts EXCEPT ![f].pc = "classify", ![f].calls = @ + 1,
                                  ![f].prompt = settings.targetFolders])
  /\ UNCHANGED <<settings, folders, files, modalOpen, apiKeyNotice, edits>>

\* line 136 rejects (storage error): caught at line 160
ReadFail(r, f) ==
  /\ tasks[r][f].pc = "read"
  /\ Step(r, Caught(tasks[r], f))
  /\ UNCHANGED <<settings, folders, files, modalOpen, apiKeyNotice, edits>>

\* lines 178-188: the provider call resolves with a text or null
ClassifyOk(r, f) ==
  /\ tasks[r][f].pc = "classify"
  /\ \E response \in RawAnswers :
       LET t == [tasks[r][f] EXCEPT !.response = response]
       IN Step(r, [tasks[r] EXCEPT ![f] = AfterClassify(t, ClassifyResult(response))])
  /\ UNCHANGED <<settings, folders, files, modalOpen, apiKeyNotice, edits>>

\* lines 189-192: the provider call throws (transport, HTTP status): classifyNote
\* catches it and returns null
ClassifyFail(r, f) ==
  /\ tasks[r][f].pc = "classify"
  /\ Step(r, [tasks[r] EXCEPT ![f] = AfterClassify(tasks[r][f], Null)])
  /\ UNCHANGED <<settings, folders, files, modalOpen, apiKeyNotice, edits>>

\* line 150 resolves: the folder now exists; line 155 issues the rename
CreateFolderOk(r, f) ==
  /\ tasks[r][f].pc = "createFolder"
  /\ ~PathExists(tasks[r][f].chosenFolder)
  /\ folders' = folders \cup {tasks[r][f].chosenFolder}
  /\ Step(r, [tasks[r] EXCEPT ![f].pc = "rename", ![f].moves = @ + 1])
  /\ UNCHANGED <<settings, files, modalOpen, apiKeyNotice, edits>>

\* line 150 rejects (the folder exists by now, or a storage error)
CreateFolderFail(r, f) ==
  /\ tasks[r][f].pc = "createFolder"
  /\ Step(r, Caught(tasks[r], f))
  /\ UNCHANGED <<settings, folders, files, modalOpen, apiKeyNotice, edits>>

\* the destination of line 154 is free and its folder exists
CanMove(f, folder) ==
  /\ folder \in folders
  /\ \A g \in FileIds : ~(files[g].folder = folder /\ Name(g) = Name(f))

\* line 154 with the folder name in place of file.name
NewPathFolderOnly(f, folder) == [folder |-> folder, name |-> folder]

\* line 154: const newPath = `${chosenFolder}/${file.name}`
NewPath(f, folder) == [folder |-> folder, name |-> Name(f)]

\* line 155 resolves: the file is at newPath; return true (line 156)
RenameOk(r, f) ==
  /\ tasks[r][f].pc = "rename"
  /\ CanMove(f, tasks[r][f].chosenFolder)
  /\ files' = [files EXCEPT ![f] = NewPath(f, tasks[r][f].chosenFolder)]
  /\ Step(r, Settled(tasks[r], f, 156, TRUE))
  /\ UNCHANGED <<settings, folders, modalOpen, apiKeyNotice, edits>>

\* line 155 rejects (destination taken, or a storage error)
RenameFail(r, f) ==
  /\ tasks[r][f].pc = "rename"
  /\ Step(r, Caught(tasks[r], f))
  /\ UNCHANGED <<settings, folders, files, modalOpen, apiKeyNotice, edits>>

\* line 127: the pacing timer fires; the for loop goes on
DelayElapsed(r) ==
  /\ runs[r].pc = "delay"
  /\ LET next == NextBatch(runs[r], tasks[r])
     IN /\ runs' = [runs EXCEPT ![r] = next[1]]
        /\ tasks' = [tasks EXCEPT ![r] = next[2]]
  /\ UNCHANGED <<settings, folders, files, modalOpen, apiKeyNotice, edits>>

\* ---------------------------------------------------------- settings tab
\* the onChange callbacks of AISorterSettingTab.display; the tab is not
\* reachable while the confirmation modal is open
Edit(s) ==
  /\ ~modalOpen
  /\ edits < MaxEdits
  /\ s # settings
  /\ settings' = s
  /\ edits' = edits + 1
  /\ UNCHANGED <<folders, files, modalOpen, apiKeyNotice, runs, tasks>>

\* lines 364-368
SetAiModel == \E v \in Providers : Edit([settings EXCEPT !.aiModel = v])

\* lines 373-410: only the key of the selected model is shown
SetApiKey ==
  \E v \in {Empty, SomeKey} :
    Edit(CASE settings.aiModel = "gemini" -> [settings EXCEPT !.geminiApiKey = v]
           [] settings.aiModel = "claude" -> [settings EXCEPT !.claudeApiKey = v]
           [] settings.aiModel = "gpt" -> [settings EXCEPT !.gptApiKey = v])

\* lines 415-424
SetSourceFolder ==
  \E v \in {Empty, LabelW} : Edit([settings EXCEPT !.sourceFolder = v])

\* lines 426-435
ToggleAutoDetection ==
  Edit([settings EXCEPT !.useAutoDetection = ~@])

\* lines 437-450: shown only when auto-detection is off
SetTargetFolders ==
  /\ ~settings.useAutoDetection
  /\ \E v \in SUBSET Labels : Edit([settings EXCEPT !.targetFolders = v])

\* lines 467-477
SetMaxWorkers ==
  \E v \in 1..MaxWorkers : Edit([settings EXCEPT !.maxWorkers = v])

\* ----------------------------------------------------------------- Next
Next ==
  \/ SortNotes
  \/ ModalCancel
  \/ ModalConfirm
  \/ \E r \in RunIds, f \in FileIds :
       \/ ReadOk(r, f)
       \/ ReadFail(r, f)
       \/ ClassifyOk(r, f)
       \/ ClassifyFail(r, f)
       \/ CreateFolderOk(r, f)
       \/ CreateFolderFail(r, f)
       \/ RenameOk(r, f)
       \/ RenameFail(r, f)
  \/ \E r \in RunIds : DelayElapsed(r)
  \/ SetAiModel
  \/ SetApiKey
  \/ SetSourceFolder
  \/ ToggleAutoDetection
  \/ SetTargetFolders
  \/ SetMaxWorkers

Spec == Init /\ [][Next]_vars

\* ------------------------------------------------------------- scheduling
\* the external call task f of run r is suspended at settles: it resolves or
\* it rejects
CallSettles(r, f) ==
  \/ ReadOk(r, f)
  \/ ReadFail(r, f)
  \/ ClassifyOk(r, f)
  \/ ClassifyFail(r, f)
  \/ CreateFolderOk(r, f)
  \/ CreateFolderFail(r, f)
  \/ RenameOk(r, f)
  \/ RenameFail(r, f)

\* the plugin with the settings tab left alone
RunNext ==
  \/ SortNotes
  \/ ModalCancel
  \/ ModalConfirm
  \/ \E r \in RunIds, f \in FileIds : CallSettles(r, f)
  \/ \E r \in RunIds : DelayElapsed(r)

\* pending vault and provider calls settle and the timers of line 127 fire:
\* while some call is pending one of them settles, while some timer is set one
\* of them fires (the event loop runs a continuation that stays ready)
Fairness ==
  /\ WF_vars(\E r \in RunIds, f \in FileIds : CallSettles(r, f))
  /\ WF_vars(\E r \in RunIds : DelayElapsed(r))

FairSpec == Init /\ [][RunNext]_vars /\ Fairness

\* =================================================================== claims
Started(r) == runs[r].pc # "idle"
\* the files of batch b of run r
BatchOf(r, b) == Range(runs[r].batches[b])
Pending == {"read", "classify", "createFolder", "rename"}

\* C1: in every run, whenever a task of window N+1 has been started (it has
\* read, classified or moved, or is about to), every task of window N has
\* returned -- whatever the order in which the tasks of a window complete.
C1_WindowsSequential ==
  \A r \in RunIds :
    \A b \in 1..(Len(runs[r].batches) - 1) :
      (\E f \in BatchOf(r, b + 1) : tasks[r][f].pc # "none")
        => (\A g \in BatchOf(r, b) : tasks[r][g].pc = "done")

\* a run of two windows, the first of two tasks, with a task of the second
\* window waiting for its classification
C1_Witness ==
  \E r \in RunIds :
    /\ runs[r].cur = 2
    /\ Len(runs[r].batches[1]) = 2
    /\ \E f \in BatchOf(r, 2) : tasks[r][f].pc = "classify"

\* classification calls issued and not yet returned, over all runs
InFlightCalls ==
  Cardinality({p \in RunIds \X FileIds : tasks[p[1]][p[2]].pc = "classify"})

\* C2: the number of classification calls in flight never exceeds the
\* concurrency k: here k is the largest maxWorkers any run was started with.
C2_InFlightAtMostK ==
  \A k \in 1..MaxWorkers :
    (\A r \in RunIds : runs[r].batchSize <= k) => InFlightCalls <= k

\* C3: a task that ends in failure (returns false) changes no other task, of
\* its window or of any other, and never ends the run: a run is over only when
\* every one of its documents has a terminal outcome, and a run whose window
\* has drained goes on to the delay or the next window.
C3_FailureIsolated ==
  /\ [](\A r \in RunIds :
          /\ runs[r].pc = "done" => \A f \in Range(runs[r].files) : tasks[r][f].pc = "done"
          /\ runs[r].pc = "awaiting" => \E f \in BatchOf(r, runs[r].cur) : tasks[r][f].pc \in Pending)
  /\ [][\A r \in RunIds, f \in FileIds :
          (tasks[r][f].pc \in Pending /\ tasks'[r][f].pc = "done" /\ ~tasks'[r][f].value)
            => \A q \in RunIds, g \in FileIds :
                 (<<q, g>> # <<r, f>> /\ tasks[q][g].pc \in Pending)
                   => tasks'[q][g] = tasks[q][g]]_vars

\* a window in which one task failed with an error and its sibling moved its
\* document afterwards, and the run goes on to the next window
C3_Witness ==
  \E r \in RunIds :
    /\ runs[r].pc = "delay"
    /\ \E f, g \in BatchOf(r, runs[r].cur) :
         /\ tasks[r][f].ret = 162
         /\ tasks[r][g].ret = 156
         /\ files[g].folder = LabelW

\* C4: a document changes place only by the rename of a task whose answer,
\* trimmed, is a non-empty exact member of the label list it was checked
\* against, and it goes to the folder of that name; a task gets as far as
\* createFolder or rename only with such an answer.
C4_MovedOnlyOnExactMember ==
  /\ [](\A r \in RunIds, f \in FileIds :
          tasks[r][f].pc \in {"createFolder", "rename"}
            => /\ tasks[r][f].response # Null
               /\ Trim(tasks[r][f].response) # Empty
               /\ Trim(tasks[r][f].response) \in tasks[r][f].checked
               /\ tasks[r][f].chosenFolder = Trim(tasks[r][f].response))
  /\ [][\A f \in FileIds :
          files'[f] # files[f]
            => \E r \in RunIds :
                 /\ tasks[r][f].pc = "rename"
                 /\ tasks[r][f].response # Null
                 /\ Trim(tasks[r][f].response) \in tasks[r][f].checked
                 /\ files'[f].folder = Trim(tasks[r][f].response)]_vars

\* a window in which one document was moved to W and the answer for another
\* was rejected, which stays where it was
C4_Witness ==
  \E r \in RunIds, f, g \in FileIds :
    /\ tasks[r][f].ret = 156
    /\ files[f].folder = LabelW
    /\ tasks[r][g].ret = 158
    /\ files[g].folder = Empty

\* C5: a task that read empty or whitespace-only content has returned false
\* at line 139, and has issued no classification call and no move.
C5_BlankSkippedWithoutCall ==
  \A r \in RunIds, f \in FileIds :
    (tasks[r][f].content # Null /\ Trim(tasks[r][f].content) = Empty)
      => /\ tasks[r][f].pc = "done"
         /\ tasks[r][f].ret = 139
         /\ ~tasks[r][f].value
         /\ tasks[r][f].calls = 0
         /\ tasks[r][f].moves = 0

\* a window with a whitespace-only document and an empty one, both skipped
C5_Witness ==
  \E r \in RunIds, f, g \in FileIds :
    /\ tasks[r][f].content = <<Space>>
    /\ tasks[r][f].ret = 139
    /\ tasks[r][g].content = Empty
    /\ tasks[r][g].ret = 139

\* C6: while the credential of the selected model is missing, no confirmation
\* modal is or gets open and no run starts, so nothing is read, classified or
\* moved on behalf of that invocation; the API-key notice is shown only then,
\* by a step that changes nothing else.
C6_MissingKeyStartsNothing ==
  /\ [](CallCredential(settings) = Empty => ~modalOpen)
  /\ [][CallCredential(settings) = Empty
          => /\ ~modalOpen'
             /\ \A r \in RunIds : runs[r].pc = "idle" => runs'[r] = runs[r] /\ tasks'[r] = tasks[r]]_vars
  /\ [][apiKeyNotice' # apiKeyNotice
          => /\ CallCredential(settings) = Empty
             /\ UNCHANGED <<settings, folders, files, modalOpen, runs, tasks>>]_vars

\* sortNotes was invoked with the key of the selected model missing: the notice
\* is up, and no run has started
C6_Witness ==
  /\ apiKeyNotice
  /\ CallCredential(settings) = Empty
  /\ ~modalOpen
  /\ \A r \in RunIds : runs[r].pc = "idle"
  /\ \A r \in RunIds, f \in FileIds : tasks[r][f].pc = "none"

\* C7: a run that starts while the label list is empty aborts with zero work:
\* it is over at once and has launched no task (no read, no classification
\* call, no move).
C7_EmptyLabelsNoWork ==
  [][\A r \in RunIds :
       (runs[r].pc = "idle" /\ runs'[r].pc # "idle" /\ settings.targetFolders = {})
         => /\ runs'[r].pc = "done"
            /\ \A f \in FileIds : tasks'[r][f].pc = "none" /\ tasks'[r][f].reads = 0]_vars

\* the concatenation of a sequence of sequences
RECURSIVE Flatten(_)
Flatten(ss) == IF ss = <<>> THEN <<>> ELSE Head(ss) \o Flatten(Tail(ss))

\* C8: the n files of a run with concurrency k are cut into exactly
\* ceil(n / k) windows, all of size k but the last, which holds between 1 and
\* k; the windows in order make up the file list again, and every file is in
\* exactly one window.
C8_Windows ==
  \A r \in RunIds :
    (Started(r) /\ runs[r].files # <<>>)
      => LET n == Len(runs[r].files)
             k == runs[r].batchSize
             b == runs[r].batches
         IN /\ k >= 1
            /\ Len(b) = (n + k - 1) \div k
            /\ \A i \in 1..(Len(b) - 1) : Len(b[i]) = k
            /\ Len(b[Len(b)]) \in 1..k
            /\ Flatten(b) = runs[r].files
            /\ \A f \in Range(runs[r].files) :
                 Cardinality({i \in DOMAIN b : f \in Range(b[i])}) = 1

\* three files with concurrency 2: a window of two, then a window of one
C8_Witness ==
  \E r \in RunIds :
    /\ runs[r].batchSize = 2
    /\ runs[r].files = <<1, 2, 3>>
    /\ runs[r].batches = << <<1, 2>>, <<3>> >>

\* C9: a run sets one pacing timer after every window but the last and none
\* elsewhere: while window c is awaited c - 1 timers have been set, during the
\* delay after window c (never the last) c have, a finished run of w windows
\* has set w - 1; and no task of a later window has started while the delay
\* or the window before is pending.
C9_DelayBetweenWindows ==
  \A r \in RunIds :
    LET w == Len(runs[r].batches)
        c == runs[r].cur
    IN /\ runs[r].pc = "awaiting" => runs[r].delays = c - 1
       /\ runs[r].pc = "delay"
            => /\ runs[r].delays = c
               /\ c < w
               /\ \A b \in (c + 1)..w : \A f \in BatchOf(r, b) : tasks[r][f].pc = "none"
       /\ (runs[r].pc = "done" /\ runs[r].files # <<>>)
            => (c = w /\ runs[r].delays = w - 1)
       /\ \A b \in 2..w :
            (\E f \in BatchOf(r, b) : tasks[r][f].pc # "none") => runs[r].delays >= b - 1

\* a finished run of three windows, which has set two timers
C9_Witness ==
  \E r \in RunIds :
    /\ runs[r].pc = "done"
    /\ Len(runs[r].batches) = 3
    /\ runs[r].delays = 2

\* C10: a run whose file list is empty is over at once with the "No notes
\* found" notice: it has launched no task (no read, no classification call, no
\* move), set no timer and counted nothing.
C10_NoFilesNoWork ==
  \A r \in RunIds :
    (Started(r) /\ runs[r].files = <<>>)
      => /\ runs[r].pc = "done"
         /\ runs[r].notice = "nofiles"
         /\ runs[r].delays = 0
         /\ runs[r].totalMoved = 0 /\ runs[r].totalErrors = 0
         /\ \A f \in FileIds :
              /\ tasks[r][f].pc = "none"
              /\ tasks[r][f].reads = 0 /\ tasks[r][f].calls = 0 /\ tasks[r][f].moves = 0

\* a second run that finds the source folder emptied by the first
C10_Witness ==
  \E r, q \in RunIds :
    /\ runs[q].pc = "done" /\ runs[q].totalMoved = MaxDocs
    /\ runs[r].pc = "done" /\ runs[r].files = <<>> /\ runs[r].notice = "nofiles"

\* C11: if every external call eventually settles, a run that has started
\* goes through all its batches: it eventually is done, with every one of its
\* files' tasks returned and the summary Notice shown
C11_RunCompletes ==
  \A r \in RunIds :
    (runs[r].pc \in {"awaiting", "delay"})
      ~> (/\ runs[r].pc = "done"
          /\ runs[r].notice = "complete"
          /\ runs[r].cur = Len(runs[r].batches)
          /\ \A f \in Range(runs[r].files) : tasks[r][f].pc = "done")

C11_Witness ==
  \E r \in RunIds :
    /\ runs[r].pc = "done"
    /\ runs[r].notice = "complete"
    /\ Len(runs[r].batches) = 2
    /\ runs[r].totalErrors >= 1
    /\ runs[r].totalMoved >= 1
    /\ \A f \in Range(runs[r].files) : tasks[r][f].pc = "done"

\* the step of run r in which the results of its current batch are folded
\* (lines 116-123)
Folds(r) == runs[r].pc = "awaiting" /\ runs'[r].pc \in {"delay", "done"}

\* the tasks of batch b of run r that have left by one of the return lines rets
ReturnedAt(ts, r, b, rets) == {f \in BatchOf(r, b) : ts[r][f].ret \in rets}

\* C12 as stated: a task that ends without a move and without an error (blank
\* content, line 139; no label or a label not in the list, line 158) adds to
\* neither total: a fold adds the tasks that returned true to totalMoved and
\* only the tasks that ended in the catch of line 160 to totalErrors
C12_SkipsUncounted ==
  [][\A r \in RunIds :
       Folds(r) =>
         /\ runs'[r].totalMoved =
              runs[r].totalMoved + Cardinality(ReturnedAt(tasks', r, runs[r].cur, {156}))
         /\ runs'[r].totalErrors =
              runs[r].totalErrors + Cardinality(ReturnedAt(tasks', r, runs[r].cur, {162}))
    ]_vars

\* C12 amended: a task that ends without a move and without an error adds one
\* to totalErrors and nothing to totalMoved: a fold adds the tasks that
\* returned true to totalMoved and every other task of the batch, skipped
\* (lines 139, 158) or failed (line 162), to totalErrors
C12_SkipsCountAsErrors ==
  [][\A r \in RunIds :
       Folds(r) =>
         /\ runs'[r].totalMoved =
              runs[r].totalMoved + Cardinality(ReturnedAt(tasks', r, runs[r].cur, {156}))
         /\ runs'[r].totalErrors =
              runs[r].totalErrors
                + Cardinality(ReturnedAt(tasks', r, runs[r].cur, {139, 158}))
                + Cardinality(ReturnedAt(tasks', r, runs[r].cur, {162}))
    ]_vars

C12_Witness ==
  \E r \in RunIds :
    /\ runs[r].pc = "done"
    /\ runs[r].cur = 1
    /\ Len(runs[r].batches[1]) = 2
    /\ runs[r].totalMoved = 0
    /\ runs[r].totalErrors = 2
    /\ \E f, g \in BatchOf(r, 1) : tasks[r][f].ret = 139 /\ tasks[r][g].ret = 158

\* the number of batches of run r whose results have been folded
Folded(r) ==
  IF runs[r].pc \in {"delay", "done"} THEN runs[r].cur
  ELSE IF runs[r].pc = "awaiting" THEN runs[r].cur - 1
  ELSE 0

\* the files of the batches of run r whose results have been folded
FoldedFiles(r) == UNION {BatchOf(r, b) : b \in 1..Folded(r)}

\* C13: the totals of a run are a function of the set of results of its
\* tasks: whatever the order in which the tasks of each batch have settled,
\* totalMoved is the number of folded tasks that returned true and totalErrors
\* the number of folded tasks that returned false
C13_TotalsOrderIndependent ==
  \A r \in RunIds :
    /\ runs[r].totalMoved = Cardinality({f \in FoldedFiles(r) : tasks[r][f].value})
    /\ runs[r].totalErrors = Cardinality({f \in FoldedFiles(r) : ~tasks[r][f].value})

C13_Witness ==
  \E r \in RunIds :
    /\ runs[r].pc = "done"
    /\ runs[r].batches = << <<1, 2>>, <<3>> >>
    /\ ~tasks[r][1].value /\ tasks[r][2].value /\ tasks[r][3].value
    /\ runs[r].totalMoved = 2
    /\ runs[r].totalErrors = 1

C15_LabelSetFixed ==
  \A r \in RunIds, f \in FileIds :
    /\ tasks[r][f].pc \in {"classify", "createFolder", "rename"} =>
         tasks[r][f].prompt = runs[r].labels
    /\ tasks[r][f].pc \in {"createFolder", "rename"} =>
         tasks[r][f].checked = runs[r].labels

\* newPath of line 154, for file f and folder, is the path of another file
Occupied(f, folder) ==
  \E g \in FileIds \ {f} : files[g].folder = folder /\ Name(g) = Name(f)

C17_MovedOnlyByRename ==
  /\ [](\A r \in RunIds, f \in FileIds : tasks[r][f].moves <= 1)
  /\ [][
         /\ \A f \in FileIds :
            files'[f] # files[f] =>
              /\ \E r \in RunIds :
                   /\ tasks[r][f].pc = "rename"
                   /\ tasks'[r][f].pc = "done"
                   /\ tasks'[r][f].ret = 156
                   /\ files'[f].folder = tasks[r][f].chosenFolder
              /\ files'[f].name = files[f].name
              /\ \A g \in FileIds \ {f} : files'[g] = files[g]
         /\ \A r \in RunIds, f \in FileIds :
              (tasks'[r][f] # tasks[r][f] /\ tasks'[r][f].ret # 156) => files' = files
         /\ \A r \in RunIds, f \in FileIds :
              tasks[r][f].pc = "done" => tasks'[r][f].pc = "done"
      ]_vars

C17_Witness ==
  \E r \in RunIds, f, g \in FileIds :
    /\ runs[r].pc = "done"
    /\ tasks[r][f].ret = 156
    /\ tasks[r][f].moves = 1
    /\ files[f] = [folder |-> LabelW, name |-> <<"n", NameChars[f]>>]
    /\ tasks[r][g].ret = 158
    /\ files[g] = [folder |-> Empty, name |-> <<"n", NameChars[g]>>]

\* how far a classifyAndMoveNote call has got
Rank(pc) ==
  CASE pc = "none" -> 0
    [] pc = "read" -> 1
    [] pc = "classify" -> 2
    [] pc = "createFolder" -> 3
    [] pc = "rename" -> 4
    [] pc = "done" -> 5

\* C18: no call is issued twice for a file in a run: a task has issued at
\* most one vault.read, one provider call and one vault.rename; a task only
\* moves forward (read, classify, createFolder, rename, done), also when the
\* call it was suspended at fails; it issues a call exactly when it enters the
\* stage that awaits it; and once it has returned it is not started again
C18_NoRetry ==
  /\ [](\A r \in RunIds, f \in FileIds :
          /\ tasks[r][f].reads <= 1
          /\ tasks[r][f].calls <= 1
          /\ tasks[r][f].moves <= 1
          /\ Cardinality({b \in DOMAIN runs[r].batches : f \in BatchOf(r, b)}) <= 1)
  /\ [][\A r \in RunIds, f \in FileIds :
          tasks'[r][f].pc # tasks[r][f].pc =>
            /\ Rank(tasks'[r][f].pc) > Rank(tasks[r][f].pc)
            /\ tasks'[r][f].reads = tasks[r][f].reads + (IF tasks'[r][f].pc = "read" THEN 1 ELSE 0)
            /\ tasks'[r][f].calls = tasks[r][f].calls + (IF tasks'[r][f].pc = "classify" THEN 1 ELSE 0)
            /\ tasks'[r][f].moves = tasks[r][f].moves + (IF tasks'[r][f].pc = "rename" THEN 1 ELSE 0)
      ]_vars

C18_Witness ==
  \E r \in RunIds, f, g \in FileIds :
    /\ runs[r].pc = "done"
    /\ runs[r].cur = 1
    /\ tasks[r][f].ret = 162 /\ tasks[r][f].reads = 1 /\ tasks[r][f].calls = 0
    /\ tasks[r][g].ret = 162 /\ tasks[r][g].reads = 1 /\ tasks[r][g].calls = 1
         /\ tasks[r][g].moves = 1

\* C19 as stated: a task whose answer is a listed label and whose newPath is
\* free ends with the file moved under every interleaving; in particular a
\* task whose createFolder (line 150) is pending when a sibling has created
\* that folder goes on to its rename (line 155)
C19_MemberAnswerMoves ==
  [][\A r \in RunIds, f \in FileIds :
       (/\ tasks[r][f].pc = "createFolder"
        /\ tasks[r][f].chosenFolder \in tasks[r][f].checked
        /\ tasks[r][f].chosenFolder \in folders
        /\ ~Occupied(f, tasks[r][f].chosenFolder)
        /\ tasks'[r][f] # tasks[r][f]) =>
         tasks'[r][f].pc = "rename"
    ]_vars

\* C20: when the summary Notice of line 131 is shown every file of the run
\* has been counted once: totalMoved + totalErrors is the number of files,
\* totalMoved the number of tasks that returned true; and a task returns true
\* in exactly the steps in which its rename resolves and its file changes
\* place
C20_EveryFileCountedOnce ==
  /\ [](\A r \in RunIds :
          (runs[r].pc = "done" /\ runs[r].notice = "complete") =>
            /\ runs[r].totalMoved + runs[r].totalErrors = Len(runs[r].files)
            /\ runs[r].totalMoved =
                 Cardinality({f \in Range(runs[r].files) : tasks[r][f].value})
            /\ \A f \in Range(runs[r].files) : tasks[r][f].pc = "done")
  /\ [][\A r \in RunIds, f \in FileIds :
          (tasks'[r][f].value /\ ~tasks[r][f].value)
            <=> (/\ tasks[r][f].pc = "rename"
                 /\ tasks'[r][f].pc = "done"
                 /\ files'[f] # files[f]
                 /\ files'[f].folder = tasks[r][f].chosenFolder)
      ]_vars

C20_Witness ==
  \E r \in RunIds :
    /\ runs[r].pc = "done"
    /\ runs[r].notice = "complete"
    /\ Len(runs[r].files) = MaxDocs
    /\ runs[r].totalMoved = 1
    /\ runs[r].totalErrors = MaxDocs - 1
    /\ Cardinality({f \in FileIds : files[f].folder = LabelW}) = 1
====
